---------------------------- MODULE Spec2Model ----------------------------
(***************************************************************************)
(* Smart parking demo: the driver's vehicle, the spot collection, the      *)
(* guidance check and the spot finder, as implemented by the two App       *)
(* components of the repository:                                           *)
(*   variant "v1"  src/types.ts:70-352 (same physics, findSpot and         *)
(*                 onAnalysisComplete as src/App.tsx) - guidance is a      *)
(*                 render effect with local directional logic;             *)
(*   variant "v2"  src/types.ts:394-980 - guidance is checkNavigation on a *)
(*                 1000 ms timer, instruction text comes from a service.   *)
(* Positions are fixed-point numbers: one lot unit is Scale model units.   *)
(* Angles are whole degrees.                                               *)
(***************************************************************************)
EXTENDS Integers, Sequences, FiniteSets, TLC

(* ------------------------------ bounds --------------------------------- *)

\* number of user and classifier events explored in one run: bursts of
\* physics ticks, findSpot assignments and classifier results
MaxEvents == 4
\* number of AdvanceTime steps after StartTime
MaxClock == 3
\* guidance instruction requests that may be in flight at once
MaxInFlight == 1
\* largest absolute heading explored tick by tick, in turns of one physics
\* tick
MaxTurns == 250
MaxUploads == 2      \* files chosen in the upload control in one run

(* ------------------------- numbers and geometry ------------------------ *)

\* fixed-point resolution of a Coordinates value: model units per lot unit
Scale == 100

Abs(n) == IF n < 0 THEN -n ELSE n

\* Math.max(0, Math.min(100, v)) on a fixed-point coordinate
\* no clamping
ClampOff(v) == v

Clamp(v) == IF v < 0 THEN 0 ELSE IF v > 100 * Scale THEN 100 * Scale ELSE v

\* the JavaScript % operator: the result takes the sign of the dividend
JsRem(a, b) == IF a >= 0 THEN a % b ELSE -((-a) % b)

\* division rounded to the nearest integer, halves away from zero
RoundDiv(a, b) == IF a >= 0 THEN (2 * a + b) \div (2 * b)
                            ELSE -((2 * (-a) + b) \div (2 * b))

\* 10000 * cos(d degrees) for d in 0..90
CosTable ==
  << 10000, 9998, 9994, 9986, 9976, 9962, 9945, 9925, 9903, 9877,
     9848, 9816, 9781, 9744, 9703, 9659, 9613, 9563, 9511, 9455,
     9397, 9336, 9272, 9205, 9135, 9063, 8988, 8910, 8829, 8746,
     8660, 8572, 8480, 8387, 8290, 8192, 8090, 7986, 7880, 7771,
     7660, 7547, 7431, 7314, 7193, 7071, 6947, 6820, 6691, 6561,
     6428, 6293, 6157, 6018, 5878, 5736, 5592, 5446, 5299, 5150,
     5000, 4848, 4695, 4540, 4384, 4226, 4067, 3907, 3746, 3584,
     3420, 3256, 3090, 2924, 2756, 2588, 2419, 2250, 2079, 1908,
     1736, 1564, 1392, 1219, 1045, 872, 698, 523, 349, 175, 0 >>

\* 10000 * Math.cos(deg * Math.PI / 180), any whole number of degrees
Cos(deg) ==
  LET d == deg % 360
  IN  IF d <= 90 THEN CosTable[d + 1]
      ELSE IF d <= 180 THEN -CosTable[180 - d + 1]
      ELSE IF d <= 270 THEN -CosTable[d - 180 + 1]
      ELSE CosTable[360 - d + 1]

\* 10000 * Math.sin(deg * Math.PI / 180)
Sin(deg) == Cos(deg - 90)

\* square of the Euclidean distance between two fixed-point points
Dist2(x1, y1, x2, y2) == (x1 - x2) * (x1 - x2) + (y1 - y2) * (y1 - y2)

\* square of a distance given in lot units, in fixed-point units
Sq(units) == units * units * Scale * Scale

\* the projection of (ax, ay) on the direction of angle a
Proj(ax, ay, a) == Cos(a) * ax + Sin(a) * ay

\* the angle in lo..hi whose direction is closest to that of (ax, ay), both
\* non-negative: the projection rises up to that angle and falls after it
RECURSIVE BestAngle(_, _, _, _)
BestAngle(ax, ay, lo, hi) ==
  IF lo >= hi THEN lo
  ELSE LET mid == (lo + hi) \div 2
       IN  IF Proj(ax, ay, mid) >= Proj(ax, ay, mid + 1)
           THEN BestAngle(ax, ay, lo, mid)
           ELSE BestAngle(ax, ay, mid + 1, hi)

\* Math.atan2(dy, dx) * 180 / Math.PI rounded to whole degrees, in -180..180
Atan2Deg(dy, dx) ==
  LET a == BestAngle(Abs(dx), Abs(dy), 0, 90)
  IN  IF dx = 0 /\ dy = 0 THEN 0
      ELSE IF dx >= 0 /\ dy >= 0 THEN a
      ELSE IF dx >= 0 THEN -a
      ELSE IF dy >= 0 THEN 180 - a
      ELSE a - 180

(* --------------------------- program constants ------------------------- *)

Null == "null"

SpotTypes == {"Standard", "Compact", "Handicap", "EV", "VIP"}
SpotStatuses == {"Available", "Occupied", "Reserved"}

ArrowKeys == {"ArrowUp", "ArrowDown", "ArrowLeft", "ArrowRight"}

Variants == {"v1", "v2"}

MkSpot(id, type, status, x, y) ==
  [id |-> id, type |-> type, status |-> status, x |-> x, y |-> y]

\* INITIAL_SPOTS of each variant
INITIAL_SPOTS(v) ==
  IF v = "v1"
  THEN << MkSpot("A1", "Standard", "Available", 15, 15),
          MkSpot("A2", "Standard", "Available", 30, 15),
          MkSpot("A3", "Standard", "Available", 45, 15),
          MkSpot("A4", "EV",       "Available", 60, 15),
          MkSpot("A5", "Handicap", "Available", 75, 15),
          MkSpot("B1", "Standard", "Available", 15, 85),
          MkSpot("B2", "Standard", "Available", 30, 85),
          MkSpot("B3", "Standard", "Available", 45, 85),
          MkSpot("B4", "VIP",      "Available", 60, 85),
          MkSpot("B5", "Standard", "Available", 75, 85) >>
  ELSE << MkSpot("A1", "Standard", "Available", 10, 15),
          MkSpot("A2", "Standard", "Available", 25, 15),
          MkSpot("A3", "EV",       "Available", 40, 15),
          MkSpot("A4", "Handicap", "Occupied",  55, 15),
          MkSpot("A5", "Standard", "Available", 70, 15),
          MkSpot("B1", "Standard", "Available", 10, 85),
          MkSpot("B2", "Standard", "Available", 25, 85),
          MkSpot("B3", "VIP",      "Available", 40, 85),
          MkSpot("B4", "Standard", "Available", 55, 85),
          MkSpot("B5", "Standard", "Occupied",  70, 85) >>

\* arrival threshold of the guidance check, lot units
ArriveDist == 4
\* v2 guidance trigger: time window, moved distance, minimum gap
GuideEvery == 8000
GuideMoved == 5
GuideMinGap == 1000
\* v1 speech: minimum gap between two requests, and the distance above which
\* a steering command is spoken
VoiceGap == 3000
SpeakDist == 10
\* steering thresholds of the v1 directional logic, degrees
ReverseAngle == 130
TurnAngle == 25

\* degrees per tick, and forward / backward speed per tick in 1/100 lot units
RotSpeed(v) == IF v = "v1" THEN 3 ELSE 4
FwdSpeed(v) == IF v = "v1" THEN 120 ELSE 150
BackSpeed(v) == IF v = "v1" THEN 80 ELSE 150

\* Math.cos(rad) * speed (or Math.sin(rad) * speed) as a fixed-point step
Step(trig, speed) == RoundDiv(trig * speed * Scale, 10000 * 100)

\* Date.now() when the component is constructed, and the clock granularity
StartTime == 100000
TimeStep == 500


(* ------------------------------ messages ------------------------------- *)

\* a text shown or spoken: its wording, the spot it names, the count it names
Msg(text, spot, n) == [text |-> text, spot |-> spot, n |-> n]
NoMsg == Msg("", "", 0)

InitialInstruction(v) ==
  IF v = "v1" THEN Msg("Control car with Arrow Keys.", "", 0)
              ELSE Msg("Use Arrow Keys to drive.", "", 0)

\* the text displayed on arrival
ArrivedText(v) ==
  IF v = "v1" THEN Msg("You have arrived! Welcome.", "", 0)
              ELSE Msg("Arrived!", "", 0)

\* the text spoken on arrival
ArrivedSpeech(v, id) ==
  IF v = "v1"
  THEN Msg("You have arrived at your parking spot. Have a wonderful day.", "", 0)
  ELSE Msg("You have arrived at spot. Parking complete.", id, 0)

CmdReverse  == Msg("Reverse back carefully.", "", 0)
CmdRight    == Msg("Turn right.", "", 0)
CmdLeft     == Msg("Turn left.", "", 0)
CmdStraight == Msg("Drive straight ahead.", "", 0)

\* what the generative service does with one request: it answers with
\* content, answers without content, or the request fails
Response(kind, text) == [kind |-> kind, text |-> text]

Responses(answer) ==
  { Response("data", answer), Response("empty", NoMsg),
    Response("error", NoMsg) }

\* generateSpeech(text): the decoded audio of the text, or null (NoMsg) when
\* the response carries no audio or anything in the try block throws
GenerateSpeech(text, r) == IF r.kind = "data" THEN text ELSE NoMsg

GetNavigationInstructionNoDefault(r) ==
  IF r.kind = "error" THEN Msg("Proceed to your designated spot.", "", 0)
  ELSE r.text

\* getNavigationInstruction: the trimmed text of the response, a default
\* when the text is empty, another default when the request throws
GetNavigationInstruction(r) ==
  IF r.kind = "error" THEN Msg("Proceed to your designated spot.", "", 0)
  ELSE IF r.text = NoMsg THEN Msg("Proceed to the highlighted spot.", "", 0)
  ELSE r.text

\* getAdminInsights: the same with its own two defaults
GetAdminInsights(r) ==
  IF r.kind = "error" THEN Msg("System operating normally.", "", 0)
  ELSE IF r.text = NoMsg THEN Msg("Data analysis unavailable.", "", 0)
  ELSE r.text

\* the answers of the instruction service
NavResponses == Responses(Msg("Turn left", "", 0))

\* the texts getNavigationInstruction can return
NavTexts == { GetNavigationInstruction(r) : r \in NavResponses }

NoSpotText == Msg("Apologies, no vacant spots found for this request.", "", 0)

NoSpotSpeech(v) ==
  IF v = "v1" THEN Msg("No available spots found for your criteria.", "", 0)
              ELSE Msg("No matching spots available.", "", 0)

AssignedText(v, id) ==
  IF v = "v1" THEN Msg("Navigating to spot. Turn toward the blue path.", id, 0)
              ELSE Msg("Drive to Spot", id, 0)

AssignedSpeech(v, id) ==
  IF v = "v1" THEN Msg("Setting navigation to spot. Follow my directions.", id, 0)
              ELSE Msg("Spot reserved. Following shortest path.", id, 0)

FeedText(n) == Msg("Feed analyzed. Found vacant positions.", "", n)

FindMyCarSpeech(id) ==
  IF id # Null THEN Msg("Your vehicle is parked at spot.", id, 0)
               ELSE Msg("No active parking session found.", "", 0)

(* -------------------------------- state -------------------------------- *)

VARIABLES
  variant,               \* which App component runs
  spots,                 \* useState<ParkingSpot[]>: sequence of spot records
  userCar,               \* useState<Vehicle>: x, y, rotation, targetSpotId, state
  instruction,           \* instruction (v1) / lastInstruction (v2)
  now,                   \* the reading of Date.now()
  lastGuidanceTime,      \* v2 ref
  lastGuidanceLocation,  \* v2 ref: Null or <<x, y>>
  lastVoice,             \* v1 lastVoiceRef
  voiceDebounce,         \* v1 voiceDebounceRef
  pending,               \* v2: issue times of unanswered instruction requests
  used,                  \* number of user and classifier events so far
  lastEmit,              \* observer: Null or the time and place of the last
                         \* guidance instruction that was emitted
  ev,                    \* observer: what the last step emitted
  uploads,               \* the files chosen in the upload control, in order
  mediaSrc,              \* useState mediaSrc: 0, or the number of the upload
  jobs,                  \* v1: the runAiAnalysis calls that have not returned
  timers,                \* v2: the pending 2500 ms timers of runImageAnalysis
  imgEl,                 \* v2: the hidden <img> element of ParkingMap
  applied,               \* observer: the classifier results applied so far
  svc,                   \* observer: the last service call that settled
  view,                  \* useState view: "driver" or "admin"
  insights,              \* v2: the getAdminInsights calls not yet settled
  adminInsight,          \* v2 useState adminInsight
  tickAge,               \* ms since the physics interval last fired
  navAge,                \* v2: ms since navInterval was created or last fired
  isProcessing           \* v1: useState isProcessing of ParkingMap

vars == << variant, spots, userCar, instruction, now, lastGuidanceTime,
           lastGuidanceLocation, lastVoice, voiceDebounce, pending, used,
           lastEmit, ev, uploads, mediaSrc, jobs, timers, imgEl, applied,
           svc, view, insights, adminInsight, tickAge, navAge,
           isProcessing >>

\* the state of the media pipeline
mediaVars ==
  << uploads, mediaSrc, jobs, timers, imgEl, applied, isProcessing >>

\* the periods of the physics interval and of navInterval
TickEvery == 20
NavEvery == 1000

\* the interval timers have just been created
NoTimers == tickAge = 0 /\ navAge = 0

\* v2: the navigation effect runs again because one of its dependencies
\* changed: its cleanup clears navInterval and a new interval is created
NavIntervalRestarts == navAge' = IF variant = "v2" THEN 0 ELSE navAge

\* the view and the state of the service calls
serviceVars == << svc, view, insights, adminInsight >>

\* a settled service call: its name, what the service did, what it returned
Call(name, kind, result) == [name |-> name, kind |-> kind, result |-> result]

\* the driver view, no service call settled or pending
NoService ==
  /\ svc = Call("none", "none", NoMsg)
  /\ view = "driver"
  /\ insights = 0
  /\ adminInsight = Msg("Generating insights...", "", 0)

\* the <img> element: the upload its src names (0: the empty src), its state
\* ("none", "loading", "loaded", "broken", or "threw" once analyze has thrown
\* out of the effect), and whether analyze is its onload handler, with the
\* spots the handler closed over
ImgEl(src, state, onload) == [src |-> src, state |-> state, onload |-> onload]

\* no image and no media work
NoMedia ==
  /\ uploads = << >>
  /\ mediaSrc = 0
  /\ jobs = {}
  /\ timers = {}
  /\ imgEl = ImgEl(0, "none", << >>)
  /\ applied = << >>
  /\ isProcessing = FALSE

\* what a step emitted: the outcome of the guidance check it ran ("none"
\* when it ran none, "skipped" when the check returned before the arrival
\* test), the bearing and angle difference the check computed, and the
\* texts handed to the speech service
Ev(check, bearing, diff, spoke) ==
  [check |-> check, bearing |-> bearing, diff |-> diff, spoke |-> spoke]

Silent == Ev("none", 0, 0, << >>)

\* the result of one run of the guidance check; check is "none" when it did
\* not run, "skipped" when it returned before the arrival test
Guide(car, instr, voice, debounce, spoke, check, bearing, diff) ==
  [car |-> car, instr |-> instr, voice |-> voice, debounce |-> debounce,
   spoke |-> spoke, check |-> check, bearing |-> bearing, diff |-> diff]

\* the Vehicle record created by useState
InitialCar ==
  [x |-> 5 * Scale, y |-> 50 * Scale, rotation |-> 0,
   targetSpotId |-> Null, state |-> "driving"]

Init ==
  /\ variant \in Variants
  /\ spots = INITIAL_SPOTS(variant)
  /\ userCar = InitialCar
  /\ instruction = InitialInstruction(variant)
  /\ now = StartTime
  /\ lastGuidanceTime = 0
  /\ lastGuidanceLocation = << >>
  /\ lastVoice = NoMsg
  /\ voiceDebounce = 0
  /\ pending = {}
  /\ used = 0
  /\ lastEmit = << >>
  /\ ev = Silent
  /\ NoMedia
  /\ NoService
  /\ NoTimers

(* ------------------------------- physics ------------------------------- *)

\* an early return that does not look at the vehicle state
TickSkippedNeverParked(car, keys, v) == v = "v1" /\ keys = {}

\* the early return of the updater: the vehicle is parked, or (v1) no key is
\* held down
TickSkipped(car, keys, v) ==
  car.state = "parked" \/ (v = "v1" /\ keys = {})

\* the updater passed to setUserCar by the 20 ms interval, for one firing
\* with the key set `keys` held down
PhysicsTick(car, keys, v) ==
  IF TickSkipped(car, keys, v) THEN car
  ELSE
    LET rot == car.rotation
               - (IF "ArrowLeft" \in keys THEN RotSpeed(v) ELSE 0)
               + (IF "ArrowRight" \in keys THEN RotSpeed(v) ELSE 0)
        fx == IF "ArrowUp" \in keys THEN Step(Cos(rot), FwdSpeed(v)) ELSE 0
        fy == IF "ArrowUp" \in keys THEN Step(Sin(rot), FwdSpeed(v)) ELSE 0
        bx == IF "ArrowDown" \in keys THEN Step(Cos(rot), BackSpeed(v)) ELSE 0
        by == IF "ArrowDown" \in keys THEN Step(Sin(rot), BackSpeed(v)) ELSE 0
    IN  [car EXCEPT !.x = Clamp(car.x + fx - bx),
                    !.y = Clamp(car.y + fy - by),
                    !.rotation = rot]

\* whether a firing of the interval hands React a new location object, which
\* is what re-runs the effects that depend on userCar.location
NewLocation(car, keys, v) == ~ TickSkipped(car, keys, v)

(* ---------------------------- spot collection -------------------------- *)

SpotIds(ss) == { ss[i].id : i \in 1..Len(ss) }

\* spots.find(s => s.id === id): the index of the first match, 0 when none
RECURSIVE FindFrom(_, _, _)
FindFrom(ss, id, i) ==
  IF i > Len(ss) THEN 0
  ELSE IF ss[i].id = id THEN i
  ELSE FindFrom(ss, id, i + 1)

\* a lookup that falls back to the first spot when no id matches
FindSpotIndexOrFirst(ss, id) ==
  IF FindFrom(ss, id, 1) = 0 THEN 1 ELSE FindFrom(ss, id, 1)

FindSpotIndex(ss, id) == FindFrom(ss, id, 1)

\* the request types a findSpot button passes; Null is the call without one
RequestTypes(v) ==
  IF v = "v1" THEN {Null, "EV", "Handicap"} ELSE {"Standard", "EV", "Handicap"}

\* a candidate filter that forgets the requested type
AvailableSpotsOfAnyType(ss, type) ==
  SelectSeq(ss, LAMBDA s : s.status = "Available")

\* spots.filter(s => s.status === AVAILABLE && (!type || s.type === type))
AvailableSpots(ss, type) ==
  SelectSeq(ss, LAMBDA s : s.status = "Available"
                           /\ (type = Null \/ s.type = type))

\* insertion of s into a sequence sorted by distance to (cx, cy), after the
\* elements that are not farther: Array.prototype.sort is stable
RECURSIVE InsertByDist(_, _, _, _)
InsertByDist(sorted, s, cx, cy) ==
  IF sorted = << >> THEN << s >>
  ELSE IF Dist2(Head(sorted).x * Scale, Head(sorted).y * Scale, cx, cy)
          <= Dist2(s.x * Scale, s.y * Scale, cx, cy)
       THEN << Head(sorted) >> \o InsertByDist(Tail(sorted), s, cx, cy)
       ELSE << s >> \o sorted

\* availableSpots.sort((a, b) => distA - distB)
RECURSIVE SortByDist(_, _, _)
SortByDist(ss, cx, cy) ==
  IF ss = << >> THEN << >>
  ELSE InsertByDist(SortByDist(SubSeq(ss, 1, Len(ss) - 1), cx, cy),
                    ss[Len(ss)], cx, cy)

\* the spot findSpot settles on, given a non-empty candidate list
BestSpot(available, car, v) ==
  IF v = "v1" THEN available[1]
  ELSE SortByDist(available, car.x, car.y)[1]

\* curr.map(s => s.id === id ? {...s, status: RESERVED} : s)
Reserve(ss, id) ==
  [i \in 1..Len(ss) |->
     IF ss[i].id = id THEN [ss[i] EXCEPT !.status = "Reserved"] ELSE ss[i]]

\* an update that writes the status of the first spot only
ApplyOccupiedFirst(ss, occupiedIds) ==
  [i \in 1..Len(ss) |->
     IF i > 1 THEN ss[i]
     ELSE [ss[i] EXCEPT !.status = IF ss[i].id \in occupiedIds
                                   THEN "Occupied" ELSE "Available"]]

\* prev.map(s => ({...s, status: occupiedIds.includes(s.id) ? OCCUPIED : AVAILABLE}))
ApplyOccupied(ss, occupiedIds) ==
  [i \in 1..Len(ss) |->
     [ss[i] EXCEPT !.status = IF ss[i].id \in occupiedIds
                              THEN "Occupied" ELSE "Available"]]

(* --------------------------- pixel classifier -------------------------- *)

\* a pixel colour; getImageData gives r = g = b = a = 0 for a pixel outside
\* the canvas
Colour(r, g, b) == [r |-> r, g |-> g, b |-> b]

OutsidePixel == Colour(0, 0, 0)

Max3(a, b, c) == IF a >= b /\ a >= c THEN a ELSE IF b >= c THEN b ELSE c
Min3(a, b, c) == IF a <= b /\ a <= c THEN a ELSE IF b <= c THEN b ELSE c

\* 1000 * (0.299 r + 0.587 g + 0.114 b)
Lum1000(c) == 299 * c.r + 587 * c.g + 114 * c.b

DarkLum == 35

\* lum < 35
IsDeepDark(c) == Lum1000(c) < DarkLum * 1000

\* one fifth is the saturation 0.20: sat > 0.20 with sat = (max - min) / max
\* when max > 0, and sat = 0 otherwise
SatFifth == 5

\* a saturation test that any difference between the channels passes
IsTinted(c) ==
  Max3(c.r, c.g, c.b) > Min3(c.r, c.g, c.b)

\* a saturation test with the threshold one half
IsVivid(c) ==
  LET max == Max3(c.r, c.g, c.b)
      min == Min3(c.r, c.g, c.b)
  IN  max > 0 /\ 2 * (max - min) > max

IsHighSat(c) ==
  LET max == Max3(c.r, c.g, c.b)
      min == Min3(c.r, c.g, c.b)
  IN  max > 0 /\ SatFifth * (max - min) > max

\* what a sampling box shows: pixels of colour b on `share` percent of it and
\* pixels of colour a on the rest
Patch(a, b, share) == [a |-> a, b |-> b, share |-> share]

\* a decoded image: its size in pixels, the lot places (in percent of its
\* width and height) where a vehicle stands, and what a box shows on a
\* vehicle and on the ground
Picture(width, height, cars, paint, ground) ==
  [decodes |-> TRUE, width |-> width, height |-> height, cars |-> cars,
   paint |-> paint, ground |-> ground]

\* a file that does not decode
Broken ==
  [decodes |-> FALSE, width |-> 0, height |-> 0, cars |-> {},
   paint |-> Patch(OutsidePixel, OutsidePixel, 0),
   ground |-> Patch(OutsidePixel, OutsidePixel, 0)]

\* conversion of a quotient to the `long` argument of getImageData
TruncDiv(a, b) == IF a >= 0 THEN a \div b ELSE -((-a) \div b)

\* the number of the `size` pixels from `start` on that lie in 0..limit-1
Inside(start, size, limit) ==
  LET lo == IF start < 0 THEN 0 ELSE start
      hi == IF start + size > limit THEN limit ELSE start + size
  IN  IF hi > lo THEN hi - lo ELSE 0

BoxW == 50
BoxH == 80
RefW == 800
RefH == 600

\* Math.floor((50 / 800) * img.width) and Math.floor((80 / 600) * img.height)
BoxWidth(pic) == (BoxW * pic.width) \div RefW
BoxHeight(pic) == (BoxH * pic.height) \div RefH

\* getImageData throws for a box without width or height
BoxThrows(pic) == BoxWidth(pic) = 0 \/ BoxHeight(pic) = 0

\* the pixels of the box of `spot` that lie on the canvas
BoxInside(pic, spot) ==
  LET w  == BoxWidth(pic)
      h  == BoxHeight(pic)
      sx == TruncDiv(2 * spot.x * pic.width - 100 * w, 200)
      sy == TruncDiv(2 * spot.y * pic.height - 100 * h, 200)
  IN  Inside(sx, w, pic.width) * Inside(sy, h, pic.height)

BoxCount(pic) == BoxWidth(pic) * BoxHeight(pic)

PatchAt(pic, spot) ==
  IF << spot.x, spot.y >> \in pic.cars THEN pic.paint ELSE pic.ground

\* the numbers of pixels of colour a and of colour b in the box of `spot`
PatchPixels(pic, spot) ==
  LET in == BoxInside(pic, spot)
      nb == (in * PatchAt(pic, spot).share) \div 100
  IN  [a |-> in - nb, b |-> nb, outside |-> BoxCount(pic) - in]

\* deepDarkPixels and highSatPixels after the loop over the pixels of the
\* box, those outside the canvas included
DeepDarkPixels(pic, spot) ==
  LET n == PatchPixels(pic, spot)
      patch == PatchAt(pic, spot)
  IN  (IF IsDeepDark(OutsidePixel) THEN n.outside ELSE 0)
      + (IF IsDeepDark(patch.a) THEN n.a ELSE 0)
      + (IF IsDeepDark(patch.b) THEN n.b ELSE 0)

HighSatPixels(pic, spot) ==
  LET n == PatchPixels(pic, spot)
      patch == PatchAt(pic, spot)
  IN  (IF IsHighSat(OutsidePixel) THEN n.outside ELSE 0)
      + (IF IsHighSat(patch.a) THEN n.a ELSE 0)
      + (IF IsHighSat(patch.b) THEN n.b ELSE 0)

SatTenth == 10
DarkPerMille == 15

\* satRatio > 0.10 || darkRatio > 0.015
IsOccupied(pic, spot) ==
  \/ SatTenth * HighSatPixels(pic, spot) > BoxCount(pic)
  \/ 1000 * DeepDarkPixels(pic, spot) > DarkPerMille * BoxCount(pic)

\* the cols of the grid runImageAnalysis generates
GridCols == 6

\* `A${c+1}` and `B${c+1}` for c = 0..5
GridIds ==
  << "A1", "A2", "A3", "A4", "A5", "A6", "B1", "B2", "B3", "B4", "B5", "B6" >>

\* newSpots of runImageAnalysis; `evCols` and `hcCols` are the columns where
\* Math.random() > 0.8 came out true in the top and in the bottom row
GridSpots(evCols, hcCols) ==
  [i \in 1..(2 * GridCols) |->
     LET c == (i - 1) % GridCols
     IN  IF i <= GridCols
         THEN MkSpot(GridIds[i], IF c \in evCols THEN "EV" ELSE "Standard",
                     "Available", 15 + c * 14, 15)
         ELSE MkSpot(GridIds[i],
                     IF c \in hcCols THEN "Handicap" ELSE "Standard",
                     "Available", 15 + c * 14, 85)]

\* an analysis that samples the boxes of the generated grid, whatever the
\* spots it was given
AnalyzeGrid(pic, ss) ==
  LET grid == GridSpots({}, {})
  IN  { grid[i].id : i \in { j \in 1..Len(grid) :
                              ~BoxThrows(pic) /\ IsOccupied(pic, grid[j]) } }

\* analyze: the ids pushed to occupiedSpots for the spots `ss`
Analyze(pic, ss) ==
  { ss[i].id : i \in { j \in 1..Len(ss) :
                         ~BoxThrows(pic) /\ IsOccupied(pic, ss[j]) } }

(* ------------------------------- guidance ------------------------------ *)

\* (angleToTarget - userCar.rotation + 540) % 360 - 180
AngleDiff(angleToTarget, rotation) ==
  JsRem(angleToTarget - rotation + 540, 360) - 180

\* directional logic whose turn thresholds include the boundary value
SteeringCommandInclusive(angleDiff) ==
  IF Abs(angleDiff) > ReverseAngle THEN CmdReverse
  ELSE IF angleDiff >= TurnAngle THEN CmdRight
  ELSE IF angleDiff <= -TurnAngle THEN CmdLeft
  ELSE CmdStraight

\* the command chosen by the directional logic for an angle difference
SteeringCommand(angleDiff) ==
  IF Abs(angleDiff) > ReverseAngle THEN CmdReverse
  ELSE IF angleDiff > TurnAngle THEN CmdRight
  ELSE IF angleDiff < -TurnAngle THEN CmdLeft
  ELSE CmdStraight

\* a voice that repeats nothing but starts requests at any rate
SpeakInstructionNoGap(g, text, t) ==
  IF text = g.voice THEN g
  ELSE [g EXCEPT !.voice = text, !.debounce = t, !.spoke = Append(@, text)]

\* v1 speakInstruction(text) at clock reading t
SpeakInstruction(g, text, t) ==
  IF text = g.voice THEN g
  ELSE IF t - g.debounce < VoiceGap THEN g
  ELSE [g EXCEPT !.voice = text, !.debounce = t, !.spoke = Append(@, text)]

\* a guidance check that does not return early for a parked vehicle
NavIdleIgnoringParked(car, i) == car.targetSpotId = Null \/ i = 0

\* the early return of the guidance check: no target, parked, or a target
\* that resolves to no spot (i is the index spots.find returned)
NavIdle(car, i) == car.targetSpotId = Null \/ car.state = "parked" \/ i = 0

\* an arrival that forgets to change the vehicle state
ParkForgotten(car) == car

\* an arrival that also drops the target reference
ParkAndClear(car) == [car EXCEPT !.state = "parked", !.targetSpotId = Null]

\* setUserCar(prev => ({ ...prev, state: 'parked' }))
Park(car) == [car EXCEPT !.state = "parked"]

\* v1: one run of the "Real-time Navigation Logic" effect
NavEffect(g, ss, t) ==
  LET car == g.car
      i == FindSpotIndex(ss, car.targetSpotId)
  IN
  IF NavIdle(car, i)
  THEN [g EXCEPT !.check = "skipped"]
  ELSE
    LET dx == ss[i].x * Scale - car.x
        dy == ss[i].y * Scale - car.y
        d2 == dx * dx + dy * dy
    IN
    IF d2 < Sq(ArriveDist)
    THEN SpeakInstruction(
           [g EXCEPT !.car = Park(car), !.instr = ArrivedText("v1"),
                     !.check = "arrived"],
           ArrivedSpeech("v1", ss[i].id), t)
    ELSE
      LET angleToTarget == Atan2Deg(dy, dx)
          angleDiff == AngleDiff(angleToTarget, car.rotation)
          cmd == SteeringCommand(angleDiff)
          shown == [g EXCEPT !.instr = cmd, !.check = "instruction",
                             !.bearing = angleToTarget, !.diff = angleDiff]
      IN  IF d2 > Sq(SpeakDist) THEN SpeakInstruction(shown, cmd, t)
          ELSE shown

\* v1: one firing of the physics interval with `keys` held, followed by the
\* navigation effect that the new location triggers
TickAndGuide(g, keys, ss, t) ==
  IF ~ NewLocation(g.car, keys, "v1") THEN g
  ELSE NavEffect([g EXCEPT !.car = PhysicsTick(g.car, keys, "v1")], ss, t)

\* v1: n consecutive firings of the physics interval with the same keys held
RECURSIVE RunTicks(_, _, _, _, _)
RunTicks(g, keys, n, ss, t) ==
  IF n = 0 THEN g
  ELSE IF n = 1 THEN TickAndGuide(g, keys, ss, t)
  ELSE CHOOSE r \in { RunTicks(h, keys, n - (n \div 2), ss, t) :
                        h \in { RunTicks(g, keys, n \div 2, ss, t) } } : TRUE

\* v2: n consecutive firings of the physics interval with the same keys held
RECURSIVE DriveTicks(_, _, _)
DriveTicks(car, keys, n) ==
  IF n = 0 THEN car
  ELSE IF n = 1 THEN PhysicsTick(car, keys, "v2")
  ELSE CHOOSE r \in { DriveTicks(c, keys, n - (n \div 2)) :
                        c \in { DriveTicks(car, keys, n \div 2) } } : TRUE

\* a trigger that lets a displacement re-issue guidance at once
GuidanceDueNoMinGap(timeDiff, moved2) ==
  timeDiff > GuideEvery \/ moved2 > Sq(GuideMoved)

\* a trigger that ignores the displacement
GuidanceDueAnyPlace(timeDiff, moved2) == timeDiff > GuideMinGap

\* v2: the guidance trigger condition of checkNavigation
GuidanceDue(timeDiff, moved2) ==
  timeDiff > GuideEvery \/ (moved2 > Sq(GuideMoved) /\ timeDiff > GuideMinGap)

\* v2: one run of checkNavigation, up to the await
CheckNav(car, ss, t, lastTime, lastLoc) ==
  LET i == FindSpotIndex(ss, car.targetSpotId)
      quiet == [car |-> car, check |-> "skipped", spoke |-> << >>,
                arrived |-> FALSE, emit |-> FALSE]
  IN
  IF NavIdle(car, i) THEN quiet
  ELSE
    IF Dist2(ss[i].x * Scale, ss[i].y * Scale, car.x, car.y) < Sq(ArriveDist)
    THEN [quiet EXCEPT !.car = Park(car), !.check = "arrived",
                       !.spoke = << ArrivedSpeech("v2", ss[i].id) >>,
                       !.arrived = TRUE]
    ELSE
      LET timeDiff == t - lastTime
          moved2 == IF lastLoc = << >> THEN 0
                    ELSE Dist2(car.x, car.y, lastLoc[1], lastLoc[2])
      IN  IF GuidanceDue(timeDiff, moved2)
          THEN [quiet EXCEPT !.check = "instruction", !.emit = TRUE]
          ELSE [quiet EXCEPT !.check = "quiet"]

(* ------------------------------- inputs -------------------------------- *)

\* the bursts of physics ticks explored: the keys held down and the number of
\* consecutive firings of the 20 ms interval during which they are held
Moves(v) ==
  IF v = "v1"
  THEN { << {"ArrowLeft"}, 25 >>, << {"ArrowUp"}, 30 >>, << {"ArrowUp"}, 4 >>,
         << {}, 1 >> }
  ELSE { << {"ArrowLeft"}, 20 >>, << {"ArrowUp"}, 25 >>, << {"ArrowUp"}, 4 >>,
         << {"ArrowDown"}, 4 >> }

\* the occupied sets a classifier run may report for a spot collection
ScanResults(ss) ==
  { {}, {ss[1].id}, SpotIds(ss) }

\* the number of AdvanceTime steps that lead to the clock reading t
ClockSteps(t) ==
  ((t - StartTime) \div GuideEvery) + (((t - StartTime) % GuideEvery) \div TimeStep)

\* what a box shows on a red car, on a white car and on the empty ground
RedCar == Patch(Colour(200, 40, 40), Colour(20, 20, 20), 10)
WhiteCar == Patch(Colour(240, 240, 240), Colour(20, 20, 20), 20)
Asphalt == Patch(Colour(120, 120, 120), Colour(230, 230, 230), 5)

\* the places of the spots A1, A2 and of B1 in the layouts of the program
PlacesA == { << 10, 15 >>, << 15, 15 >>, << 25, 15 >>, << 29, 15 >>,
             << 30, 15 >> }

\* the files the user chooses from: two photographs and a file that does
\* not decode
Files ==
  { Picture(800, 600, PlacesA, RedCar, Asphalt),
    Picture(800, 600, { << 10, 85 >>, << 15, 85 >> }, WhiteCar,
            Asphalt),
    Broken }

\* the outcomes of the two rows of Math.random() calls in runImageAnalysis
GridDraws == { << {}, {} >>, << {3}, {4} >> }

(* ------------------------------- actions ------------------------------- *)

\* the guidance state of v1 before a handler runs
Before(car, instr) ==
  Guide(car, instr, lastVoice, voiceDebounce, << >>, "none", 0, 0)

\* the physics interval fires n times in a row with `keys` held down
PhysicsBurst(keys, n) ==
  /\ IF variant = "v1"
     THEN LET g == RunTicks(Before(userCar, instruction), keys, n, spots, now)
          IN  /\ userCar' = g.car
              /\ instruction' = g.instr
              /\ lastVoice' = g.voice
              /\ voiceDebounce' = g.debounce
              /\ ev' = Ev(g.check, g.bearing, g.diff, g.spoke)
     ELSE /\ userCar' = DriveTicks(userCar, keys, n)
          /\ ev' = Silent
          /\ UNCHANGED << instruction, lastVoice, voiceDebounce >>
  /\ tickAge' = 0
  /\ navAge' = IF variant = "v2" /\ n > 0 /\ NewLocation(userCar, keys, "v2")
               THEN 0 ELSE navAge
  /\ UNCHANGED << variant, spots, now, lastGuidanceTime,
                  lastGuidanceLocation, pending, lastEmit >>
  /\ UNCHANGED << mediaVars, serviceVars >>

PhysicsLoopWith(keys, n) ==
  /\ used < MaxEvents
  /\ used' = used + 1
  /\ PhysicsBurst(keys, n)

PhysicsLoop == \E m \in Moves(variant) : PhysicsLoopWith(m[1], m[2])

\* the physics interval fires once with one of the turn keys held down
Turn ==
  \E key \in {"ArrowLeft", "ArrowRight"} :
    /\ Abs(userCar.rotation) < MaxTurns * RotSpeed(variant)
    /\ PhysicsBurst({key}, 1)
    /\ UNCHANGED used

\* v2: the 1000 ms navInterval fires and checkNavigation runs to its await
CheckNavigation ==
  /\ variant = "v2"
  /\ LET r == CheckNav(userCar, spots, now, lastGuidanceTime,
                       lastGuidanceLocation)
     IN  /\ r.emit => Cardinality(pending) < MaxInFlight
         /\ userCar' = r.car
         /\ instruction' = IF r.arrived THEN ArrivedText("v2") ELSE instruction
         /\ lastGuidanceTime' = IF r.emit THEN now ELSE lastGuidanceTime
         /\ lastGuidanceLocation' =
              IF r.emit THEN << userCar.x, userCar.y >> ELSE lastGuidanceLocation
         /\ pending' = IF r.emit THEN pending \cup {now} ELSE pending
         /\ lastEmit' =
              IF r.check = "instruction" THEN << now, userCar.x, userCar.y >>
              ELSE lastEmit
         /\ ev' = Ev(r.check, 0, 0, r.spoke)
  /\ navAge' = 0
  /\ UNCHANGED << variant, spots, now, lastVoice, voiceDebounce, used >>
  /\ UNCHANGED << mediaVars, serviceVars, tickAge >>

\* v2: getNavigationInstruction resolves; checkNavigation resumes after its
\* await, shows the text and speaks it
InstructionArrives ==
  /\ variant = "v2"
  /\ \E t \in pending, r \in NavResponses :
       LET text == GetNavigationInstruction(r)
       IN  /\ pending' = pending \ {t}
           /\ instruction' = text
           /\ ev' = Ev("none", 0, 0, << text >>)
           /\ svc' = Call("getNavigationInstruction", r.kind, text)
  /\ UNCHANGED << variant, spots, userCar, now, lastGuidanceTime,
                  lastGuidanceLocation, lastVoice, voiceDebounce, used,
                  lastEmit, view, insights, adminInsight, tickAge, navAge >>
  /\ UNCHANGED mediaVars

\* a findSpot button is pressed, with the request type `type`
FindSpotFor(type) ==
  LET available == AvailableSpots(spots, type)
  IN
  IF available = << >>
  THEN \* no candidate: report it and return
       /\ IF variant = "v1"
          THEN LET g == SpeakInstruction(Before(userCar, NoSpotText),
                                         NoSpotSpeech("v1"), now)
               IN  /\ instruction' = g.instr
                   /\ lastVoice' = g.voice
                   /\ voiceDebounce' = g.debounce
                   /\ ev' = Ev("none", 0, 0, g.spoke)
          ELSE /\ ev' = Ev("none", 0, 0, << NoSpotSpeech("v2") >>)
               /\ UNCHANGED << instruction, lastVoice, voiceDebounce >>
       /\ UNCHANGED << variant, spots, userCar, now, lastGuidanceTime,
                       lastGuidanceLocation, pending, used, lastEmit >>
       /\ UNCHANGED << mediaVars, serviceVars, tickAge, navAge >>
  ELSE LET best == BestSpot(available, userCar, variant)
           car == [userCar EXCEPT !.targetSpotId = best.id,
                                  !.state = "driving"]
       IN
       /\ used < MaxEvents
       /\ used' = used + 1
       /\ IF variant = "v1"
          THEN \* the navigation effect re-runs when targetSpotId changed
               LET s == SpeakInstruction(
                          Before(car, AssignedText("v1", best.id)),
                          AssignedSpeech("v1", best.id), now)
                   g == IF best.id # userCar.targetSpotId
                        THEN NavEffect(s, spots, now) ELSE s
               IN  /\ userCar' = g.car
                   /\ spots' = spots
                   /\ instruction' = g.instr
                   /\ lastVoice' = g.voice
                   /\ voiceDebounce' = g.debounce
                   /\ ev' = Ev(g.check, g.bearing, g.diff, g.spoke)
          ELSE /\ userCar' = car
               /\ spots' = Reserve(spots, best.id)
               /\ instruction' = AssignedText("v2", best.id)
               /\ ev' = Ev("none", 0, 0, << AssignedSpeech("v2", best.id) >>)
               /\ UNCHANGED << lastVoice, voiceDebounce >>
       /\ NavIntervalRestarts
       /\ UNCHANGED << variant, now, lastGuidanceTime,
                       lastGuidanceLocation, pending, lastEmit >>
       /\ UNCHANGED << mediaVars, serviceVars, tickAge >>

FindSpot == \E type \in RequestTypes(variant) : FindSpotFor(type)

\* onAnalysisComplete (v1) or handleImageAnalysisComplete (v2) is called with
\* the occupied set `occupiedIds`
ApplyResult(occupiedIds) ==
  /\ spots' = ApplyOccupied(spots, occupiedIds)
  /\ IF variant = "v1"
     THEN \* the navigation effect re-runs because spots changed
          LET g == NavEffect(
                     Before(userCar,
                            FeedText(Len(spots) - Cardinality(occupiedIds))),
                     spots', now)
          IN  /\ userCar' = g.car
              /\ instruction' = g.instr
              /\ lastVoice' = g.voice
              /\ voiceDebounce' = g.debounce
              /\ ev' = Ev(g.check, g.bearing, g.diff, g.spoke)
     ELSE /\ ev' = Silent
          /\ UNCHANGED << userCar, instruction, lastVoice, voiceDebounce >>
  /\ UNCHANGED << variant, now, lastGuidanceTime, lastGuidanceLocation,
                  pending, lastEmit, serviceVars, tickAge >>
  /\ NavIntervalRestarts

\* a classifier reports the occupied set `occupiedIds`
ImageAnalysisComplete(occupiedIds) ==
  /\ used < MaxEvents
  /\ used' = used + 1
  /\ ApplyResult(occupiedIds)
  /\ UNCHANGED mediaVars

HandleImageAnalysisComplete ==
  \E occupiedIds \in ScanResults(spots) : ImageAnalysisComplete(occupiedIds)

\* v2: the "Find My Car" button
FindMyCar ==
  /\ variant = "v2"
  /\ ev' = Ev("none", 0, 0, << FindMyCarSpeech(userCar.targetSpotId) >>)
  /\ UNCHANGED << variant, spots, userCar, instruction, now, lastGuidanceTime,
                  lastGuidanceLocation, lastVoice, voiceDebounce, pending,
                  used, lastEmit >>
  /\ UNCHANGED << mediaVars, serviceVars, tickAge, navAge >>

\* the clock reading grows by 500 ms or by 8000 ms between two handlers
AdvanceTime ==
  \E d \in {TimeStep, GuideEvery} :
    /\ ClockSteps(now) < MaxClock
    /\ now' = now + d
    /\ ev' = Silent
    /\ UNCHANGED << variant, spots, userCar, instruction, lastGuidanceTime,
                    lastGuidanceLocation, lastVoice, voiceDebounce, pending,
                    used, lastEmit >>
    /\ UNCHANGED << mediaVars, serviceVars, tickAge, navAge >>

(* ---------------------------- media pipeline --------------------------- *)

\* a runAiAnalysis call of v1: the upload its image shows, how far it got
\* ("loading": at the await of img.onload, "classifying": at the await of
\* analyzeParkingOccupancy), and the ids it passed or will pass
Job(src, stage, ids) == [src |-> src, stage |-> stage, ids |-> ids]

\* the record of a result handed to the completion callback
Applied(src, occupiedIds) == [src |-> src, occupied |-> occupiedIds]

\* everything but the spots, the guidance state of v1 and the media state
MediaFrame ==
  UNCHANGED << variant, now, lastGuidanceTime, lastGuidanceLocation, pending,
               used, lastEmit, serviceVars, tickAge >>

\* a file is chosen in the upload control
UploadFile(file) ==
  /\ Len(uploads) < MaxUploads
  /\ imgEl.state # "threw"
  /\ uploads' = Append(uploads, file)
  /\ mediaSrc' = Len(uploads) + 1
  /\ IF variant = "v1"
     THEN \* the effect on [mediaSrc] starts a runAiAnalysis call
          /\ jobs' = jobs \cup {Job(mediaSrc', "loading", SpotIds(spots))}
          /\ isProcessing' = TRUE
          /\ UNCHANGED << timers, imgEl >>
     ELSE \* runImageAnalysis sets its timer; the effect of ParkingMap finds
          \* the image incomplete and makes analyze its onload handler
          /\ timers' = timers \cup {mediaSrc'}
          /\ imgEl' = ImgEl(mediaSrc', "loading", << spots >>)
          /\ UNCHANGED << jobs, isProcessing >>
  /\ ev' = Silent
  /\ UNCHANGED << spots, userCar, instruction, lastVoice, voiceDebounce,
                  applied >>
  /\ MediaFrame
  /\ UNCHANGED navAge

Upload == \E file \in Files : UploadFile(file)

\* an image finishes loading: the pending runAiAnalysis call goes on to the
\* classifier (v1), or the onload handler analyze runs (v2)
ImageLoads ==
  IF variant = "v1"
  THEN \E j \in jobs :
         /\ j.stage = "loading"
         /\ uploads[j.src].decodes
         /\ jobs' = (jobs \ {j}) \cup {Job(j.src, "classifying", j.ids)}
         /\ ev' = Silent
         /\ UNCHANGED << spots, userCar, instruction, lastVoice,
                         voiceDebounce, uploads, mediaSrc, timers, imgEl,
                         applied, isProcessing >>
         /\ MediaFrame
         /\ UNCHANGED navAge
  ELSE /\ imgEl.state = "loading"
       /\ uploads[imgEl.src].decodes
       /\ imgEl' = ImgEl(imgEl.src, "loaded", imgEl.onload)
       /\ LET occupiedIds == Analyze(uploads[imgEl.src], imgEl.onload[1])
          IN  /\ ApplyResult(occupiedIds)
              /\ applied' = Append(applied, Applied(imgEl.src, occupiedIds))
       /\ UNCHANGED << uploads, mediaSrc, jobs, timers, used, isProcessing >>

\* v2: the image fails to load; the element has no error handler
ImageFails ==
  /\ variant = "v2"
  /\ imgEl.state = "loading"
  /\ ~uploads[imgEl.src].decodes
  /\ imgEl' = ImgEl(imgEl.src, "broken", imgEl.onload)
  /\ ev' = Silent
  /\ UNCHANGED << spots, userCar, instruction, lastVoice, voiceDebounce,
                  uploads, mediaSrc, jobs, timers, applied, isProcessing >>
  /\ MediaFrame
  /\ UNCHANGED navAge

\* the answers analyzeParkingOccupancy gives when asked about `ids`
Answers(ids, ss) == { occ \cap ids : occ \in ScanResults(ss) }

\* v1: analyzeParkingOccupancy resolves and runAiAnalysis calls
\* onImageAnalysisComplete
AnalysisAnswers ==
  /\ variant = "v1"
  /\ \E j \in jobs :
     \E occupiedIds \in Answers(j.ids, spots) :
       /\ j.stage = "classifying"
       /\ jobs' = jobs \ {j}
       /\ ApplyResult(occupiedIds)
       /\ applied' = Append(applied, Applied(j.src, occupiedIds))
  /\ isProcessing' = FALSE
  /\ UNCHANGED << uploads, mediaSrc, timers, imgEl, used >>

\* v1: analyzeParkingOccupancy rejects; runAiAnalysis logs the error
AnalysisRejects ==
  /\ variant = "v1"
  /\ \E j \in jobs :
       /\ j.stage = "classifying"
       /\ jobs' = jobs \ {j}
  /\ isProcessing' = FALSE
  /\ ev' = Silent
  /\ UNCHANGED << spots, userCar, instruction, lastVoice, voiceDebounce,
                  uploads, mediaSrc, timers, imgEl, applied >>
  /\ MediaFrame
  /\ UNCHANGED navAge

\* v2: a 2500 ms timer of runImageAnalysis fires and replaces the spots by
\* the generated grid; the effect of ParkingMap runs again when spots.length
\* changed
GridTimer ==
  /\ variant = "v2"
  /\ imgEl.state # "threw"
  /\ \E k \in timers, draw \in GridDraws :
       LET newSpots == GridSpots(draw[1], draw[2])
           rerun    == Len(newSpots) # Len(spots)
       IN
       /\ timers' = timers \ {k}
       /\ IF rerun /\ imgEl.state = "loaded"
          THEN LET occupiedIds == Analyze(uploads[imgEl.src], newSpots)
               IN  /\ spots' = ApplyOccupied(newSpots, occupiedIds)
                   /\ applied' = Append(applied,
                                        Applied(imgEl.src, occupiedIds))
                   /\ UNCHANGED imgEl
          ELSE /\ spots' = newSpots
               /\ imgEl' =
                    IF ~rerun THEN imgEl
                    ELSE IF imgEl.state = "loading"
                    THEN ImgEl(imgEl.src, "loading", << newSpots >>)
                    ELSE \* drawImage throws for a broken image
                         ImgEl(imgEl.src, "threw", imgEl.onload)
               /\ UNCHANGED applied
  /\ ev' = Silent
  /\ UNCHANGED << userCar, instruction, lastVoice, voiceDebounce, uploads,
                  mediaSrc, jobs, isProcessing >>
  /\ MediaFrame
  /\ NavIntervalRestarts

\* a generateSpeech call settles: speakInstruction (v1), speak (v2) and
\* findSpot resume after their await and play the audio if there is one
SpeechSettles ==
  /\ ev.spoke # << >>
  /\ \E r \in Responses(Head(ev.spoke)) :
       svc' = Call("generateSpeech", r.kind,
                   GenerateSpeech(Head(ev.spoke), r))
  /\ ev' = [ev EXCEPT !.spoke = Tail(@)]
  /\ UNCHANGED << variant, spots, userCar, instruction, now, lastGuidanceTime,
                  lastGuidanceLocation, lastVoice, voiceDebounce, pending,
                  used, lastEmit, view, insights, adminInsight, tickAge,
                  navAge >>
  /\ UNCHANGED mediaVars

\* one of the two view buttons is clicked; in v2 the insight effect runs
\* when the view has become the admin view and requests the insights
SetView(to) ==
  /\ used < MaxEvents
  /\ used' = used + 1
  /\ view' = to
  /\ insights' = IF variant = "v2" /\ to = "admin" /\ view # "admin"
                 THEN insights + 1 ELSE insights
  /\ ev' = Silent
  /\ UNCHANGED << variant, spots, userCar, instruction, now, lastGuidanceTime,
                  lastGuidanceLocation, lastVoice, voiceDebounce, pending,
                  lastEmit, svc, adminInsight, tickAge, navAge >>
  /\ UNCHANGED mediaVars

SwitchView == \E to \in {"driver", "admin"} : SetView(to)

\* v2: a getAdminInsights call settles and its text is shown
InsightArrives ==
  /\ insights > 0
  /\ insights' = insights - 1
  /\ \E r \in Responses(Msg("Occupancy is stable.", "", 0)) :
       /\ adminInsight' = GetAdminInsights(r)
       /\ svc' = Call("getAdminInsights", r.kind, GetAdminInsights(r))
  /\ ev' = Silent
  /\ UNCHANGED << variant, spots, userCar, instruction, now, lastGuidanceTime,
                  lastGuidanceLocation, lastVoice, voiceDebounce, pending,
                  used, lastEmit, view, tickAge, navAge >>
  /\ UNCHANGED mediaVars

\* a toggle that does not spare the target
VideoToggleAny(ss, idx, target) ==
  [ss EXCEPT ![idx].status =
     IF @ = "Available" THEN "Occupied" ELSE "Available"]

\* v2: the updater that handleVideoActivity passes to setSpots, for the
\* random index idx and the target the callback closed over
VideoToggle(ss, idx, target) ==
  IF ss[idx].id = target THEN ss
  ELSE [ss EXCEPT ![idx].status =
          IF @ = "Available" THEN "Occupied" ELSE "Available"]

\* v2: the video feed of ParkingMap reports activity and handleVideoActivity
\* runs; the callback is created anew whenever the target changes
HandleVideoActivity ==
  /\ variant = "v2"
  /\ used < MaxEvents
  /\ used' = used + 1
  /\ \E idx \in 1..Len(spots) :
       spots' = VideoToggle(spots, idx, userCar.targetSpotId)
  /\ navAge' = IF spots' = spots THEN navAge ELSE 0
  /\ ev' = Silent
  /\ UNCHANGED << variant, userCar, instruction, now, lastGuidanceTime,
                  lastGuidanceLocation, lastVoice, voiceDebounce, pending,
                  lastEmit, tickAge >>
  /\ UNCHANGED << mediaVars, serviceVars >>

\* 20 ms pass while no timer is due
Elapse ==
  /\ tickAge < TickEvery
  /\ navAge < NavEvery
  /\ tickAge' = tickAge + TickEvery
  /\ navAge' = IF variant = "v2" THEN navAge + TickEvery ELSE navAge
  /\ ev' = Silent
  /\ UNCHANGED << variant, spots, userCar, instruction, now, lastGuidanceTime,
                  lastGuidanceLocation, lastVoice, voiceDebounce, pending,
                  used, lastEmit >>
  /\ UNCHANGED << mediaVars, serviceVars >>

\* v2: 20 ms pass while the physics interval is due and the main thread is
\* busy, so that no timer callback runs
Stall ==
  /\ variant = "v2"
  /\ tickAge = TickEvery
  /\ navAge < NavEvery
  /\ navAge' = navAge + TickEvery
  /\ ev' = Silent
  /\ UNCHANGED << variant, spots, userCar, instruction, now, lastGuidanceTime,
                  lastGuidanceLocation, lastVoice, voiceDebounce, pending,
                  used, lastEmit, tickAge >>
  /\ UNCHANGED << mediaVars, serviceVars >>

\* the physics interval is due and fires once, with no key held down
GameTick ==
  /\ tickAge = TickEvery
  /\ PhysicsBurst({}, 1)
  /\ UNCHANGED used

\* v2: navInterval is due and fires
NavTimerFires ==
  /\ navAge = NavEvery
  /\ CheckNavigation

Next ==
  \/ Upload
  \/ ImageLoads
  \/ ImageFails
  \/ AnalysisAnswers
  \/ AnalysisRejects
  \/ GridTimer
  \/ PhysicsLoop
  \/ CheckNavigation
  \/ InstructionArrives
  \/ FindSpot
  \/ HandleImageAnalysisComplete
  \/ FindMyCar
  \/ AdvanceTime
  \/ SpeechSettles
  \/ SwitchView
  \/ InsightArrives
  \/ Elapse
  \/ Stall
  \/ GameTick
  \/ NavTimerFires
  \/ HandleVideoActivity

Spec == Init /\ [][Next]_vars

(* --------------------------- partial systems --------------------------- *)

\* driving and parking: every handler runs, the clock reading stays put
NextDrive ==
  \/ PhysicsLoop
  \/ CheckNavigation
  \/ InstructionArrives
  \/ FindSpot
  \/ HandleImageAnalysisComplete
  \/ FindMyCar

SpecDrive == Init /\ [][NextDrive]_vars

\* the media pipeline: files are uploaded, images load or fail, classifiers
\* answer and the grid timers fire, while spots are requested
NextUpload ==
  \/ Upload
  \/ ImageLoads
  \/ ImageFails
  \/ AnalysisAnswers
  \/ AnalysisRejects
  \/ GridTimer

SpecUpload == Init /\ [][NextUpload]_vars

\* every image that can load does, an image that cannot load fails, every
\* call of the occupancy service settles and every timer fires
FairUpload ==
  /\ SpecUpload
  /\ WF_vars(ImageLoads)
  /\ WF_vars(ImageFails)
  /\ WF_vars(AnalysisAnswers)
  /\ WF_vars(AnalysisRejects)
  /\ WF_vars(GridTimer)

\* the service calls: the vehicle is assigned spots and guided, the views
\* are switched, and every speech, instruction and insight request settles
\* with an answer, with no content or with a failure
NextService ==
  \/ CheckNavigation
  \/ FindSpot
  \/ InstructionArrives
  \/ SpeechSettles
  \/ SwitchView
  \/ InsightArrives

SpecService == Init /\ [][NextService]_vars

\* the pixel classifier as a function: analyze is the onload handler of an
\* image of any size and content and closed over any list of regions; the
\* image loads

\* regions near the border of the image and one in the middle
BorderRegions ==
  << MkSpot("A1", "Standard", "Available", 2, 15),
     MkSpot("A2", "Standard", "Available", 50, 50),
     MkSpot("B1", "Standard", "Available", 97, 96),
     MkSpot("B2", "Standard", "Available", 50, 4) >>

PlacesOf(ss) == { << ss[i].x, ss[i].y >> : i \in 1..Len(ss) }

\* the test images: three sizes, three layouts of painted regions, and
\* paint that is bright signage, saturated red, a red car or a white car
TestPictures ==
  LET signage == { Patch(Colour(220, 220, 219), Colour(220, 220, 219), 0),
                   Patch(Colour(221, 220, 220), Colour(219, 219, 220), 50),
                   Patch(Colour(222, 221, 221), Colour(218, 218, 219), 50) }
      redPaint == { Patch(Colour(215, 135, 135), Colour(215, 135, 135), 0),
                    Patch(Colour(200, 120, 120), Colour(230, 150, 150), 50),
                    Patch(Colour(240, 160, 160), Colour(255, 175, 175), 50) }
      sizes == { << 800, 600 >>, << 160, 120 >>, << 8, 6 >> }
      layouts ==
        { PlacesA,
          PlacesOf(BorderRegions) \cup PlacesOf(GridSpots({}, {})),
          { << 2, 15 >>, << 50, 50 >>, << 85, 15 >>, << 85, 85 >> } }
  IN  { Picture(size[1], size[2], cars, paint, Asphalt) :
          size \in sizes, cars \in layouts,
          paint \in signage \cup redPaint \cup {RedCar, WhiteCar} }

InitClassify ==
  /\ variant = "v2"
  /\ spots \in { INITIAL_SPOTS("v2"), GridSpots({}, {}) }
  /\ userCar = InitialCar
  /\ instruction = InitialInstruction(variant)
  /\ now = StartTime
  /\ lastGuidanceTime = 0
  /\ lastGuidanceLocation = << >>
  /\ lastVoice = NoMsg
  /\ voiceDebounce = 0
  /\ pending = {}
  /\ used = 0
  /\ lastEmit = << >>
  /\ ev = Silent
  /\ \E pic \in TestPictures : uploads = << pic >>
  /\ mediaSrc = 1
  /\ jobs = {}
  /\ timers = {}
  /\ \E regions \in
         { INITIAL_SPOTS("v2"), GridSpots({}, {}), BorderRegions } :
       imgEl = ImgEl(1, "loading", << regions >>)
  /\ applied = << >>
  /\ isProcessing = FALSE
  /\ NoService
  /\ NoTimers

NextClassify == ImageLoads

SpecClassify == InitClassify /\ [][NextClassify]_vars

\* the guidance check as a function of the vehicle it is given: the vehicle
\* starts with a target that is the id of a spot or of no spot of the
\* collection, and is driven while the check runs and classifier results
\* arrive
InitCheck ==
  /\ variant \in Variants
  /\ spots = INITIAL_SPOTS(variant)
  /\ \E id \in {"A1", "Z9"} :
       userCar = [InitialCar EXCEPT !.targetSpotId = id]
  /\ instruction = InitialInstruction(variant)
  /\ now = StartTime
  /\ lastGuidanceTime = 0
  /\ lastGuidanceLocation = << >>
  /\ lastVoice = NoMsg
  /\ voiceDebounce = 0
  /\ pending = {}
  /\ used = 0
  /\ lastEmit = << >>
  /\ ev = Silent
  /\ NoMedia
  /\ NoService
  /\ NoTimers

NextCheck ==
  \/ PhysicsLoop
  \/ CheckNavigation
  \/ HandleImageAnalysisComplete

SpecCheck == InitCheck /\ [][NextCheck]_vars

\* driving while the lot is regenerated: a photograph is uploaded, loads and
\* the grid timer fires while the vehicle is driven
\* the first upload: a photograph of the lot
UploadPhoto ==
  /\ mediaSrc = 0
  /\ UploadFile(Picture(800, 600, PlacesA, RedCar, Asphalt))

NextLot ==
  \/ PhysicsLoop
  \/ UploadPhoto
  \/ ImageLoads
  \/ GridTimer

SpecLot == Init /\ [][NextLot]_vars

\* v2 guidance over time: the vehicle is given a target and moved in short
\* bursts while the guidance timer fires and the clock reading grows
\* the vehicle is driven forward for four ticks or for one
Displace == \E n \in {4, 1} : PhysicsLoopWith({"ArrowUp"}, n)

FindStandard == FindSpotFor("Standard")

NextGuide ==
  \/ Displace
  \/ CheckNavigation
  \/ InstructionArrives
  \/ FindStandard
  \/ AdvanceTime

InitGuide == Init /\ variant = "v2"

SpecGuide == InitGuide /\ [][NextGuide]_vars

\* v1 steering: the vehicle starts at its initial place or one forward tick
\* further, is given a target, and turns on the spot tick by tick
InitSteer ==
  /\ variant = "v1"
  /\ spots = INITIAL_SPOTS(variant)
  /\ userCar \in
       { InitialCar, PhysicsTick(InitialCar, {"ArrowUp"}, "v1") }
  /\ instruction = InitialInstruction(variant)
  /\ now = StartTime
  /\ lastGuidanceTime = 0
  /\ lastGuidanceLocation = << >>
  /\ lastVoice = NoMsg
  /\ voiceDebounce = 0
  /\ pending = {}
  /\ used = 0
  /\ lastEmit = << >>
  /\ ev = Silent
  /\ NoMedia
  /\ NoService
  /\ NoTimers

\* the target is assigned once
Assign == used = 0 /\ FindSpot

NextSteer ==
  \/ Turn
  \/ Assign

SpecSteer == InitSteer /\ [][NextSteer]_vars

\* the interval timers: the vehicle has been driven next to a spot (or has
\* not moved), a standard spot is requested, and then no key is held down
\* while time passes, the physics interval fires every 20 ms and navInterval
\* fires when it has lived for 1000 ms
NearCars(v) ==
  { InitialCar,
    IF v = "v1"
    THEN RunTicks(
           RunTicks(Guide(InitialCar, InitialInstruction(v), NoMsg, 0, << >>,
                          "none", 0, 0),
                    {"ArrowLeft"}, 25, INITIAL_SPOTS(v), StartTime),
           {"ArrowUp"}, 30, INITIAL_SPOTS(v), StartTime).car
    ELSE DriveTicks(DriveTicks(InitialCar, {"ArrowLeft"}, 20),
                    {"ArrowUp"}, 25) }

InitTimers ==
  /\ variant \in Variants
  /\ spots = INITIAL_SPOTS(variant)
  /\ userCar \in NearCars(variant)
  /\ instruction = InitialInstruction(variant)
  /\ now = StartTime
  /\ lastGuidanceTime = 0
  /\ lastGuidanceLocation = << >>
  /\ lastVoice = NoMsg
  /\ voiceDebounce = 0
  /\ pending = {}
  /\ used = 0
  /\ lastEmit = << >>
  /\ ev = Silent
  /\ NoMedia
  /\ NoService
  /\ NoTimers

NextTimers ==
  \/ FindStandard
  \/ Elapse
  \/ Stall
  \/ GameTick
  \/ NavTimerFires

SpecTimers == InitTimers /\ [][NextTimers]_vars

\* the timers are scheduled fairly: time passes, and an interval that is due
\* fires
FairTimers ==
  /\ SpecTimers
  /\ WF_vars(Elapse)
  /\ WF_vars(GameTick)
  /\ WF_vars(NavTimerFires)

\* the statuses of the spots: the vehicle starts next to a spot or where it
\* was created; spots are requested, the guidance check runs, classifier
\* results arrive and the video feed reports activity
NextSpots ==
  \/ FindSpot
  \/ CheckNavigation
  \/ HandleImageAnalysisComplete
  \/ HandleVideoActivity

SpecSpots == InitTimers /\ [][NextSpots]_vars

\* the voice of v1: the vehicle starts next to a spot or where it was created,
\* is driven in short bursts and assigned spots while the clock reading grows
NextVoice ==
  \/ Displace
  \/ FindSpot
  \/ AdvanceTime

InitVoice == InitTimers /\ variant = "v1"

SpecVoice == InitVoice /\ [][NextVoice]_vars

(* ------------------------------ properties ----------------------------- *)

\* the index in ss of the spot the vehicle targets, 0 when it resolves to none
TargetIndex(car, ss) ==
  IF car.targetSpotId = Null THEN 0 ELSE FindSpotIndex(ss, car.targetSpotId)

\* the vehicle is closer than `units` lot units to the spot it targets
TargetWithin(car, ss, units) ==
  LET i == TargetIndex(car, ss)
  IN  /\ i # 0
      /\ Dist2(ss[i].x * Scale, ss[i].y * Scale, car.x, car.y) < Sq(units)

\* the vehicle is driving and its target resolves to a spot
Guided(car, ss) == car.state = "driving" /\ TargetIndex(car, ss) # 0

\* the physics interval moved or turned the vehicle in this step
Moved == userCar'.x # userCar.x \/ userCar'.y # userCar.y
         \/ userCar'.rotation # userCar.rotation

\* C1: when the guidance check runs on a driving vehicle whose target
\* resolves, it parks the vehicle and shows the arrival text instead of an
\* instruction if the vehicle is closer than 4 units to the target, and
\* leaves it driving otherwise; the check does run in v2 whenever the timer
\* fires on such a vehicle and in v1 whenever such a vehicle moved.
C1_ArrivalParks ==
  [][ /\ ev'.check \in {"arrived", "instruction", "quiet"} =>
           /\ TargetIndex(userCar', spots') # 0
           /\ TargetWithin(userCar', spots', 4) =>
                /\ userCar'.state = "parked"
                /\ ev'.check = "arrived"
                /\ instruction' = ArrivedText(variant)
           /\ ~ TargetWithin(userCar', spots', 4) =>
                /\ userCar'.state = "driving"
                /\ ev'.check # "arrived"
                /\ instruction' # ArrivedText(variant)
      /\ (variant = "v2" /\ CheckNavigation /\ Guided(userCar, spots)) =>
           ev'.check \in {"arrived", "instruction", "quiet"}
      /\ (variant = "v1" /\ Moved /\ Guided(userCar, spots)) =>
           ev'.check \in {"arrived", "instruction"}
    ]_vars

\* C1 witness: a guidance check has just parked the vehicle next to its target
C1_Witness ==
  /\ ev.check = "arrived"
  /\ userCar.state = "parked"
  /\ TargetWithin(userCar, spots, 4)

\* C2: while the vehicle is parked, a guidance check (the v2 timer, or the
\* v1 effect re-run by a physics tick or a classifier result) emits nothing:
\* no instruction, no arrival, no speech, and the vehicle is unchanged; an
\* arrival is only ever emitted for a vehicle that was driving or has just
\* been given another target.
C2_ArrivalOnce ==
  [][ /\ ( /\ userCar.state = "parked"
           /\ CheckNavigation \/ PhysicsLoop \/ HandleImageAnalysisComplete )
         => /\ ev'.check \in {"none", "skipped"}
            /\ ev'.spoke = << >>
            /\ userCar' = userCar
            /\ \/ instruction' = instruction
               \/ /\ HandleImageAnalysisComplete
                  /\ instruction'.text = FeedText(0).text
      /\ ev'.check = "arrived" =>
           \/ userCar.state = "driving"
           \/ userCar'.targetSpotId # userCar.targetSpotId
    ]_vars

\* C2 witness: a guidance check ran on the parked vehicle and returned early
C2_Witness ==
  /\ userCar.state = "parked"
  /\ ev.check = "skipped"
  /\ TargetWithin(userCar, spots, 4)

\* C3 as stated: the arrival clears targetSpotId, and no later guidance check
\* or physics tick moves the vehicle back to driving.
C3_Original ==
  [][ /\ ev'.check = "arrived" => userCar'.targetSpotId = Null
      /\ (userCar.state = "parked" /\ (CheckNavigation \/ PhysicsLoop))
           => userCar'.state = "parked"
    ]_vars

\* C3 amended: the arrival keeps targetSpotId, which still names the spot the
\* vehicle arrived at, and no later guidance check or physics tick moves the
\* vehicle back to driving or changes its target.
C3_ArrivalKeepsTarget ==
  [][ /\ ev'.check = "arrived" =>
           /\ userCar'.targetSpotId # Null
           /\ TargetWithin(userCar', spots', 4)
           /\ userCar'.targetSpotId = userCar.targetSpotId \/ FindSpot
      /\ (userCar.state = "parked" /\ (CheckNavigation \/ PhysicsLoop))
           => /\ userCar'.state = "parked"
              /\ userCar'.targetSpotId = userCar.targetSpotId
    ]_vars

\* C3 witness: the vehicle is parked and still refers to its spot
C3_Witness ==
  /\ userCar.state = "parked"
  /\ userCar.targetSpotId # Null
  /\ TargetIndex(userCar, spots) # 0

\* C4 as stated: whenever the directional logic computes the signed angle
\* difference, the value is congruent to bearing - heading modulo 360 and
\* lies between -180 and 180 (the half turn itself is accepted at either end,
\* because whole-degree bearings cannot tell the two ends apart).
C4_Original ==
  ev.check = "instruction" =>
    /\ (ev.diff - (ev.bearing - userCar.rotation)) % 360 = 0
    /\ ev.diff \in -180 .. 180

\* C5: whenever the directional logic shows a command, the command is
\* determined by the signed angle difference d alone: reverse for |d| > 130,
\* otherwise turn right for d > 25, turn left for d < -25, else straight.
C5_SteeringByAngle ==
  ev.check = "instruction" =>
    instruction = IF ev.diff > 130 \/ ev.diff < -130 THEN CmdReverse
                  ELSE IF ev.diff > 25 THEN CmdRight
                  ELSE IF ev.diff < -25 THEN CmdLeft
                  ELSE CmdStraight

\* C5 witness: the difference is exactly 26 and the command is turn right
C5_Witness ==
  /\ ev.check = "instruction"
  /\ ev.diff = 26
  /\ instruction = CmdRight

\* the time since the last guidance instruction was issued
SinceLastEmit == now - lastEmit[1]

\* the squared distance of the vehicle from where the last guidance
\* instruction was issued
MovedSinceLastEmit == Dist2(userCar.x, userCar.y, lastEmit[2], lastEmit[3])

\* a guidance check runs `ms` milliseconds after the one that issued the
\* last instruction, on a driving vehicle that has not reached its target
SecondCheckAfter(ms) ==
  /\ CheckNavigation
  /\ Guided(userCar, spots)
  /\ ~ TargetWithin(userCar, spots, 4)
  /\ lastEmit # << >>
  /\ SinceLastEmit = ms

C7_GuidanceGate ==
  [][ (ev'.check = "instruction" /\ lastEmit # << >>) =>
        /\ \/ SinceLastEmit > 8000
           \/ MovedSinceLastEmit > Sq(5) /\ SinceLastEmit > 1000
        /\ SinceLastEmit > 1000
        /\ MovedSinceLastEmit = 0 => SinceLastEmit > 8000
        /\ lastEmit' = << now, userCar.x, userCar.y >>
    ]_vars

\* C7 witness: the text of an earlier instruction is on display and a
\* further instruction has just been issued, less than 8000 ms after the
\* first check, because the vehicle had moved
C7_Witness ==
  /\ ev.check = "instruction"
  /\ instruction \in NavTexts
  /\ lastEmit # << >>
  /\ lastEmit[1] - StartTime <= 8000
  /\ lastGuidanceTime = lastEmit[1]

\* whether spot s is a candidate for a request of type `type`
Candidate(s, type) ==
  s.status = "Available" /\ (type = Null \/ s.type = type)

\* the index of the candidate nearest to the vehicle, the earliest one in
\* list order among equidistant candidates
NearestCandidate(ss, type, car) ==
  LET cand == { i \in 1..Len(ss) : Candidate(ss[i], type) }
      d(i) == Dist2(ss[i].x * Scale, ss[i].y * Scale, car.x, car.y)
  IN  CHOOSE i \in cand :
        \A j \in cand : d(i) < d(j) \/ (d(i) = d(j) /\ i <= j)

\* C8 as stated: when a request has a candidate, findSpot makes the nearest
\* candidate the target, the earliest in list order among equidistant ones.
C8_Original ==
  [][ \A type \in RequestTypes(variant) :
        ( /\ FindSpotFor(type)
          /\ \E i \in 1..Len(spots) : Candidate(spots[i], type) )
        => userCar'.targetSpotId
             = spots[NearestCandidate(spots, type, userCar)].id
    ]_vars

\* C9: when no spot is Available for the request, findSpot leaves the
\* vehicle and every spot unchanged and reports that no spot is available:
\* v1 shows the no-spot text, v2 speaks it; neither reports an assignment.
C9_NoSpot ==
  [][ \A type \in RequestTypes(variant) :
        ( /\ FindSpotFor(type)
          /\ \A i \in 1..Len(spots) : ~ Candidate(spots[i], type) )
        => /\ userCar' = userCar
           /\ spots' = spots
           /\ used' = used
           /\ IF variant = "v1"
              THEN /\ instruction' = NoSpotText
                   /\ ev'.spoke \in { << >>, << NoSpotSpeech("v1") >> }
              ELSE /\ instruction' = instruction
                   /\ ev'.spoke = << NoSpotSpeech("v2") >>
    ]_vars

\* C9 witness: a request found no candidate and the vehicle has no target
C9_Witness ==
  /\ ev.spoke = << NoSpotSpeech(variant) >>
  /\ userCar.targetSpotId = Null
  /\ \E type \in RequestTypes(variant) :
       \A i \in 1..Len(spots) : ~ Candidate(spots[i], type)

\* C10 as stated: applying a classifier result keeps every Reserved spot
\* Reserved and makes no spot Reserved.
C10_Original ==
  [][ HandleImageAnalysisComplete =>
        \A i \in 1..Len(spots) :
          spots[i].status = "Reserved" <=> spots'[i].status = "Reserved"
    ]_vars

\* C11 as stated: a classifier result that is applied to the spots was
\* computed for the image of the latest upload; the result of an earlier
\* upload is never applied after a newer upload.
C11_Original ==
  [][ applied' # applied =>
        applied'[Len(applied')].src = mediaSrc
    ]_vars

\* the result handed to the completion callback by the last analysis
LastApplied == applied[Len(applied)]

\* C12: the ids the classifier reports are ids of the spots it was given,
\* and applying the result leaves the number of spots and the id, type and
\* place of every spot as they were: a reported id that matches no spot of
\* the collection creates no spot and changes nothing.
C12_ReportedSubset ==
  [][ ImageLoads =>
        LET given    == imgEl.onload[1]
            reported == applied'[Len(applied')].occupied
        IN  /\ Len(applied') = Len(applied) + 1
            /\ reported \subseteq { given[i].id : i \in 1..Len(given) }
            /\ Len(spots') = Len(spots)
            /\ \A i \in 1..Len(spots) :
                 /\ spots'[i] = [spots[i] EXCEPT !.status = spots'[i].status]
                 /\ spots'[i].status =
                      IF spots[i].id \in reported THEN "Occupied"
                      ELSE "Available"
    ]_vars

\* C12 witness: a result was applied that reports a spot of the collection
\* and an id that matches no spot of the collection
C12_Witness ==
  /\ applied # << >>
  /\ \E i \in 1..Len(spots) : spots[i].id \in LastApplied.occupied
  /\ \E id \in LastApplied.occupied :
       \A i \in 1..Len(spots) : spots[i].id # id
  /\ Len(spots) = Len(INITIAL_SPOTS("v2"))

\* C13 as stated: when the only uploaded image does not decode, the
\* classification is aborted: no result reaches the completion callback and
\* every spot keeps the status it had before the upload.
C13_Original ==
  [][ (Len(uploads) = 1 /\ ~uploads[1].decodes) =>
        /\ applied' = applied
        /\ spots' = spots
    ]_vars

\* the box of region r lies partly or wholly outside the image
BoxLeavesImage(pic, r) ==
  \/ 2 * r.x * pic.width < 100 * ((BoxW * pic.width) \div RefW)
  \/ 2 * r.y * pic.height < 100 * ((BoxH * pic.height) \div RefH)
  \/ 2 * r.x * pic.width + 100 * ((BoxW * pic.width) \div RefW)
       > 200 * pic.width
  \/ 2 * r.y * pic.height + 100 * ((BoxH * pic.height) \div RefH)
       > 200 * pic.height

BrightGrey(patch) ==
  \A c \in {patch.a, patch.b} :
    /\ 1000 * 215 <= 299 * c.r + 587 * c.g + 114 * c.b
    /\ 299 * c.r + 587 * c.g + 114 * c.b <= 1000 * 225
    /\ \A p, q \in {c.r, c.g, c.b} : p - q <= 2

\* the sampling box of region r lies within the image and has pixels
BoxSampled(pic, r) ==
  /\ ~BoxLeavesImage(pic, r)
  /\ (BoxW * pic.width) \div RefW > 0
  /\ (BoxH * pic.height) \div RefH > 0

\* C15: a sampled region that shows a uniformly bright, low-texture,
\* low-chroma patch (luminance about 220, chroma about 1) is classified as
\* available: its id is not reported as occupied.
C15_SignageAvailable ==
  [][ ImageLoads =>
        LET given == imgEl.onload[1]
            pic   == uploads[imgEl.src]
        IN  \A i \in 1..Len(given) :
              ( /\ BoxSampled(pic, given[i])
                /\ BrightGrey(IF << given[i].x, given[i].y >> \in pic.cars
                              THEN pic.paint ELSE pic.ground) )
              => given[i].id \notin applied'[Len(applied')].occupied
    ]_vars

\* C15 witness: an analysis has run on the spots of the collection and on
\* an image in which one of them shows bright signage of two slightly
\* different greys, and that spot is Available
C15_Witness ==
  /\ applied # << >>
  /\ BrightGrey(uploads[1].paint)
  /\ uploads[1].paint.a # uploads[1].paint.b
  /\ \E i \in 1..Len(spots) :
       /\ << spots[i].x, spots[i].y >> \in uploads[1].cars
       /\ BoxSampled(uploads[1], spots[i])
       /\ PlacesOf(imgEl.onload[1]) = PlacesOf(spots)
       /\ spots[i].status = "Available"

\* every colour of the patch is a saturated red: red is its largest channel
\* and exceeds its smallest channel by 75 to 85
SaturatedRed(patch) ==
  \A c \in {patch.a, patch.b} :
    /\ c.r >= c.g /\ c.r >= c.b
    /\ \E low \in {c.g, c.b} :
         /\ low <= c.g /\ low <= c.b
         /\ c.r - low >= 75 /\ c.r - low <= 85

\* C16: a sampled region that shows a highly saturated red patch (chroma
\* about 80), textured or not, is classified as occupied: its id is
\* reported.
C16_RedOccupied ==
  [][ ImageLoads =>
        LET given == imgEl.onload[1]
            pic   == uploads[imgEl.src]
        IN  \A i \in 1..Len(given) :
              ( /\ BoxSampled(pic, given[i])
                /\ SaturatedRed(IF << given[i].x, given[i].y >> \in pic.cars
                                THEN pic.paint ELSE pic.ground) )
              => given[i].id \in applied'[Len(applied')].occupied
    ]_vars

\* C16 witness: an analysis has run on the spots of the collection and on an
\* image in which one of them shows red paint of two luminances 30 apart,
\* and that spot is Occupied while a spot on the grey ground is Available
C16_Witness ==
  /\ applied # << >>
  /\ SaturatedRed(uploads[1].paint)
  /\ uploads[1].paint.b.r - uploads[1].paint.a.r = 30
  /\ PlacesOf(imgEl.onload[1]) = PlacesOf(spots)
  /\ \E i, j \in 1..Len(spots) :
       /\ << spots[i].x, spots[i].y >> \in uploads[1].cars
       /\ BoxSampled(uploads[1], spots[i])
       /\ spots[i].status = "Occupied"
       /\ << spots[j].x, spots[j].y >> \notin uploads[1].cars
       /\ spots[j].status = "Available"

\* the vehicle has a target and no spot of ss carries that id
Unresolved(car, ss) ==
  /\ car.targetSpotId # Null
  /\ \A i \in 1..Len(ss) : ss[i].id # car.targetSpotId

\* C17: while the vehicle's target resolves to no spot of the collection, a
\* guidance check is a no-op: whichever handler runs it, no instruction and
\* no arrival is emitted, nothing is spoken, no guidance text is shown and
\* the vehicle keeps its state and its target; the check itself (the timer
\* of v2, the effect run after a classifier result in v1) leaves position
\* and heading alone as well.
C17_UnresolvedNoOp ==
  [][ ( /\ Unresolved(userCar, spots)
        /\ PhysicsLoop \/ CheckNavigation \/ HandleImageAnalysisComplete )
      => /\ ev'.check \in {"none", "skipped"}
         /\ ev'.spoke = << >>
         /\ userCar'.state = "driving"
         /\ userCar'.targetSpotId = userCar.targetSpotId
         /\ instruction' # ArrivedText(variant)
         /\ instruction' \notin {CmdReverse, CmdRight, CmdLeft, CmdStraight}
         /\ lastEmit' = lastEmit
         /\ pending' = pending
         /\ lastGuidanceTime' = lastGuidanceTime
         /\ (CheckNavigation \/ HandleImageAnalysisComplete)
              => userCar' = userCar
    ]_vars

\* C17 witness: the target resolves to no spot, the vehicle has been driven
\* away from its initial place and the last step ran a guidance check that
\* returned early
C17_Witness ==
  /\ Unresolved(userCar, spots)
  /\ ev.check = "skipped"
  /\ userCar.state = "driving"
  /\ userCar.x # InitialCar.x

\* C18: in every reachable state the x and y of the vehicle lie in [0, 100]
\* and so do the x and y of every spot, of the seed layout or of the
\* regenerated grid.
C18_InBounds ==
  /\ userCar.x >= 0 /\ userCar.x <= 100 * Scale
  /\ userCar.y >= 0 /\ userCar.y <= 100 * Scale
  /\ \A i \in 1..Len(spots) :
       /\ spots[i].x >= 0 /\ spots[i].x <= 100
       /\ spots[i].y >= 0 /\ spots[i].y <= 100

\* C18 witness: the vehicle was driven against a border of the lot, where
\* the clamp holds it, and the spots are those of the regenerated grid
C18_Witness ==
  /\ userCar.x = 0 \/ userCar.y = 0
  /\ Len(spots) = 2 * GridCols
  /\ spots[GridCols].x = 85

\* C19: while the vehicle is parked no step changes its position or heading,
\* a physics tick leaves the whole vehicle as it is whatever keys are held
\* down, and the vehicle returns to driving only in a findSpot call that
\* assigns it a target.
C19_ParkedFrozen ==
  [][ userCar.state = "parked" =>
        /\ userCar'.x = userCar.x
        /\ userCar'.y = userCar.y
        /\ userCar'.rotation = userCar.rotation
        /\ PhysicsLoop => userCar' = userCar
        /\ userCar'.state = "driving" =>
             /\ FindSpot
             /\ userCar'.targetSpotId # Null
    ]_vars

\* C19 witness (v1): the vehicle is parked, the arrival text is still shown
\* and the last step was a burst of physics ticks that ran no guidance check
C19_Witness ==
  /\ variant = "v1"
  /\ userCar.state = "parked"
  /\ instruction = ArrivedText("v1")
  /\ ev.check = "none"
  /\ ev.spoke = << >>

\* C20: a classification result is applied in one update that replaces all
\* statuses at once: the step in which the completion callback runs takes
\* the collection from the statuses before to the statuses of the result for
\* every spot, so every state a later physics tick, guidance check or
\* findSpot call reads carries a result in whole or not at all; the only
\* other change of the collection is the reservation of one spot by findSpot.
C20_AtomicApply ==
  [][ /\ HandleImageAnalysisComplete =>
           \E occupiedIds \in ScanResults(spots) :
             /\ Len(spots') = Len(spots)
             /\ \A i \in 1..Len(spots) :
                  spots'[i].status = IF spots[i].id \in occupiedIds
                                     THEN "Occupied" ELSE "Available"
      /\ (spots' # spots /\ ~HandleImageAnalysisComplete) =>
           /\ FindSpot
           /\ \E i \in 1..Len(spots) :
                /\ spots'[i].status = "Reserved"
                /\ \A j \in 1..Len(spots) : j # i => spots'[j] = spots[j]
    ]_vars

\* C20 witness: the result that names the first spot alone has been applied:
\* the first spot is Occupied and every other spot is Available
C20_Witness ==
  /\ used > 0
  /\ spots[1].status = "Occupied"
  /\ \A i \in 2..Len(spots) : spots[i].status = "Available"

\* C21: a failure of an external service never propagates. A speech
\* request that fails or carries no audio yields null and leaves the shown
\* instruction and the rest of the simulation state as they were; an
\* instruction request that fails or carries no text yields one of two fixed
\* texts, which is shown; an insight request that fails or carries no text
\* yields one of two fixed texts, which is shown.
C21_ServiceFailureContained ==
  [][ /\ SpeechSettles /\ svc'.kind # "data" =>
           /\ svc'.result = Msg("", "", 0)
           /\ << variant, spots, userCar, instruction, now, lastGuidanceTime,
                 lastGuidanceLocation, lastVoice, voiceDebounce, pending,
                 used, lastEmit, view, insights, adminInsight, tickAge,
                 navAge >>' =
              << variant, spots, userCar, instruction, now, lastGuidanceTime,
                 lastGuidanceLocation, lastVoice, voiceDebounce, pending,
                 used, lastEmit, view, insights, adminInsight, tickAge,
                 navAge >>
           /\ mediaVars' = mediaVars
      /\ InstructionArrives /\ svc'.kind # "data" =>
           /\ svc'.result \in
                { Msg("Proceed to the highlighted spot.", "", 0),
                  Msg("Proceed to your designated spot.", "", 0) }
           /\ instruction' = svc'.result
           /\ userCar' = userCar /\ spots' = spots
      /\ InsightArrives /\ svc'.kind # "data" =>
           /\ svc'.result \in
                { Msg("Data analysis unavailable.", "", 0),
                  Msg("System operating normally.", "", 0) }
           /\ adminInsight' = svc'.result
           /\ userCar' = userCar /\ spots' = spots
                 /\ instruction' = instruction
    ]_vars

\* C21 witness: in v2 the insight request has failed and its fallback is
\* shown, the instruction request has failed and its fallback is shown, and
\* the speech request for that text has failed: nothing was played, the
\* vehicle still drives to its target
C21_Witness ==
  /\ svc = Call("generateSpeech", "error", Msg("", "", 0))
  /\ adminInsight = Msg("System operating normally.", "", 0)
  /\ instruction = Msg("Proceed to your designated spot.", "", 0)
  /\ userCar.targetSpotId # Null
  /\ userCar.state = "driving"
  /\ ev.spoke = << >>

\* C22 as stated: when the guidance check of v1 emits an instruction for a
\* driving vehicle that has not arrived and is closer than 5 units to its
\* target, the instruction shown is the side-relative one: the spot is on
\* the left for a negative signed angle difference, on the right for a
\* positive one.
C22_Original ==
  ( /\ variant = "v1"
    /\ ev.check = "instruction"
    /\ Guided(userCar, spots)
    /\ TargetWithin(userCar, spots, 5)
    /\ ev.diff # 0 )
  => instruction.text =
       IF ev.diff < 0 THEN "Spot is on your left" ELSE "Spot is on your right"

\* C23 as stated: with the physics interval and the guidance check
\* scheduled fairly, a vehicle that is driving within 4 units of a target
\* that resolves to a spot, and that stays there, is eventually parked by
\* the guidance check.
C23_Original ==
  (Guided(userCar, spots) /\ TargetWithin(userCar, spots, 4))
    ~> (userCar.state = "parked" \/ ~ TargetWithin(userCar, spots, 4))

\* C24: in v1 a step starts at most one speech request, and only for a text
\* that differs from the last spoken text and when at least 3000 ms have
\* passed since the last started request; the refs record exactly the last
\* started request, so started requests are never less than 3000 ms apart
\* and no text is spoken twice in a row. The instruction that a guidance
\* check sets is shown whether or not the request is started.
C24_VoiceDebounce ==
  [][ /\ Len(ev'.spoke) <= 1
      /\ ev'.spoke # << >> =>
           /\ ev'.spoke[1] # lastVoice
           /\ now - voiceDebounce >= 3000
           /\ lastVoice' = ev'.spoke[1]
           /\ voiceDebounce' = now
      /\ ev'.spoke = << >> =>
           /\ lastVoice' = lastVoice
           /\ voiceDebounce' = voiceDebounce
      /\ ev'.check = "arrived" =>
           instruction'.text = "You have arrived! Welcome."
      /\ ev'.check = "instruction" =>
           instruction' \in {CmdReverse, CmdRight, CmdLeft, CmdStraight}
    ]_vars

\* C24 witness: a request was started after the clock had advanced, and in
\* the same 3000 ms the vehicle arrived: the arrival text is shown and the
\* arrival speech was not started
C24_Witness ==
  /\ ev.check = "arrived"
  /\ ev.spoke = << >>
  /\ instruction.text = "You have arrived! Welcome."
  /\ voiceDebounce > StartTime
  /\ now - voiceDebounce < 3000
  /\ lastVoice # NoMsg

\* C25: an invocation of handleVideoActivity never changes the spot that is
\* the vehicle's target, changes at most one spot, changes nothing but the
\* status of that spot, and leaves the collection's length and order alone.
C25_VideoSparesTarget ==
  [][ HandleVideoActivity =>
        /\ Len(spots') = Len(spots)
        /\ \A i \in 1..Len(spots) :
             /\ spots[i].id = userCar.targetSpotId => spots'[i] = spots[i]
             /\ spots'[i] = [spots[i] EXCEPT !.status = spots'[i].status]
        /\ Cardinality({ i \in 1..Len(spots) : spots'[i] # spots[i] }) <= 1
        /\ userCar' = userCar
    ]_vars

\* C25 witness: the vehicle has a target whose spot is still Reserved while
\* the video feed has made spot A2 Occupied (no classifier result of the
\* model marks A2 alone, and none leaves a spot Reserved)
C25_Witness ==
  /\ variant = "v2"
  /\ \E i \in 1..Len(spots) :
       /\ spots[i].id = userCar.targetSpotId
       /\ spots[i].status = "Reserved"
  /\ spots[2].id # userCar.targetSpotId
  /\ spots[2].status = "Occupied"
  /\ spots[5].status = "Available"

\* C26 as stated: at most one spot is Reserved, and a spot that is Reserved
\* is the vehicle's current target.
C26_Original ==
  /\ Cardinality({ i \in 1..Len(spots) : spots[i].status = "Reserved" }) <= 1
  /\ \A i \in 1..Len(spots) :
       spots[i].status = "Reserved" => spots[i].id = userCar.targetSpotId

\* C27 as stated: once the guidance check of v2 has parked the vehicle and
\* shown the arrival message, the message stays until a new target is
\* assigned: a step that leaves the vehicle parked with the same target
\* leaves the arrival message in place.
C27_Original ==
  [][ ( /\ variant = "v2"
        /\ userCar.state = "parked"
        /\ instruction.text = "Arrived!"
        /\ userCar'.state = "parked"
        /\ userCar'.targetSpotId = userCar.targetSpotId )
      => instruction' = instruction
    ]_vars

\* C28 as stated: in v2, once the image of the last upload has loaded and
\* been analysed and no grid timer is pending, every spot's status is the
\* classifier's verdict on that image for that spot.
C28_Original ==
  ( /\ variant = "v2"
    /\ mediaSrc # 0
    /\ timers = {}
    /\ imgEl.src = mediaSrc
    /\ imgEl.state = "loaded" )
  => \A i \in 1..Len(spots) :
       spots[i].status =
         IF spots[i].id \in Analyze(uploads[mediaSrc], spots)
         THEN "Occupied" ELSE "Available"

\* C29 as stated: while the vehicle is driving toward a target that
\* resolves to a spot, that spot is not Occupied.
C29_Original ==
  Guided(userCar, spots) =>
    spots[TargetIndex(userCar, spots)].status # "Occupied"

\* C30 as stated: every image analysis started by runAiAnalysis finishes:
\* whenever the processing flag is true it eventually becomes false.
C30_Original == isProcessing ~> ~ isProcessing

=============================================================================
